---- MODULE Spec2Model ----
(***************************************************************************)
(* Model of community_gallery/stock_market_analysis/hello.py: one run of   *)
(* the dashboard script (service initialisation, selection widgets, fetch, *)
(* data table, candlestick chart, moving averages, threshold filter) and   *)
(* the rerun the host performs on every user interaction.                  *)
(*                                                                         *)
(* A DataFrame is [cols, rows]: the column names in order and one function *)
(* column -> value per row.  A float is the pair <<num, den>>; NaN is      *)
(* <<0, 0>>.  Arithmetic is exact: floating-point rounding is not modelled.*)
(*                                                                         *)
(* globals holds the names bound in the module namespace; shown is what    *)
(* the script has put on display, in order.  raw (this run's history()     *)
(* result), failed (the steps whose except clause ran), stages (the        *)
(* pipeline stages performed), exc (the call an exception escaped from)    *)
(* and interacted (this is a rerun) record the run's history.              *)
(***************************************************************************)
EXTENDS Integers, Sequences, FiniteSets, TLC

VARIABLES pc, globals, selected_stock, selected_time, df, threshold,
          filtered_df, raw, shown, failed, stages, exc, interacted

vars == <<pc, globals, selected_stock, selected_time, df, threshold,
          filtered_df, raw, shown, failed, stages, exc, interacted>>

\* ---------------------------------------------------------------- bounds

\* Longest raw series the market-data source returns in the model.
MaxLen == 31

\* Raw series families 0..MaxKind (clean; with repeated rows and missing
\* days; with rows that carry no prices).
MaxKind == 2

\* ------------------------------------------------------- program constants

MA7Window == 7
MA30Window == 30
SliderMin == 100
SliderMax == 1000
SliderDefault == 500

stocks == <<"AAPL", "GOOGL", "TSLA", "MSFT", "AMZN">>
time_options == <<"1mo", "3mo", "6mo", "1y">>

\* The values the threshold slider hands back in the model: the two ends of
\* its range and its default.
SliderValues == {SliderMin, SliderDefault, SliderMax}

TitleText == "# Interactive Stock Market Analysis"
NoDataText == "No stock data available. Please try again later."

\* ------------------------------------------------------------------ floats

NaN == <<0, 0>>
Num(n) == <<n, 1>>
IsNaN(v) == v[2] = 0

\* v > t for a float v and an integer t; every comparison with NaN is false.
GreaterThan(v, t) == ~IsNaN(v) /\ v[1] > t * v[2]

\* --------------------------------------------------------------- DataFrames

Range(s) == {s[i] : i \in 1..Len(s)}

\* pd.DataFrame()
EmptyDataFrame == [cols |-> <<>>, rows |-> <<>>]

\* DataFrame.empty: some axis has length 0.
IsEmpty(d) == Len(d.cols) = 0 \/ Len(d.rows) = 0

\* d[[c1, ..., ck]]
Project(d, cs) ==
    LET keys == Range(cs)
    IN  [cols |-> cs,
         rows |-> [i \in 1..Len(d.rows) |->
                      LET row == d.rows[i] IN [c \in keys |-> row[c]]]]

\* d[c]
Column(d, c) == [i \in 1..Len(d.rows) |-> d.rows[i][c]]

\* d[c] = values, for a new or an existing column c.
SetColumn(d, c, values) ==
    LET keys == Range(d.cols) \cup {c}
    IN  [cols |-> IF c \in Range(d.cols) THEN d.cols ELSE Append(d.cols, c),
         rows |-> [i \in 1..Len(d.rows) |->
                      LET row == d.rows[i]
                      IN  [k \in keys |-> IF k = c THEN values[i] ELSE row[k]]]]

\* ------------------------------------------------------ market-data source

Levels == <<99, 100, 101, 500, 501, 1000, 1001>>

DaysBefore == <<0, 31, 60, 91, 121, 152, 182, 213, 244, 274, 305, 335, 366>>

\* The calendar date of the n-th day of 2024, n >= 1.
Timestamp(n) ==
    LET m == CHOOSE k \in 1..12 : DaysBefore[k] < n /\ n <= DaysBefore[k + 1]
    IN  [y |-> 2024, m |-> m, d |-> n - DaysBefore[m]]

\* Row i of the raw series of family k: the trading day and the close level.
\* Family k % 3 = 1 repeats every odd row and skips every other day, family
\* k % 3 = 2 has rows without prices.
RawSlot(k, i) == IF k % 3 = 1 /\ i % 2 = 0 THEN i - 1 ELSE i
RawDay(k, i) == IF k % 3 = 1 THEN 2 * RawSlot(k, i) ELSE RawSlot(k, i)
RawHasPrice(k, i) == ~(k % 3 = 2 /\ i % 5 = 3)
RawClose(k, i) ==
    Levels[(((1 + (k % 2)) * RawSlot(k, i) + k) % Len(Levels)) + 1]

RawRow(k, i) ==
    IF RawHasPrice(k, i)
    THEN [Open |-> Num(RawClose(k, i) - 1), High |-> Num(RawClose(k, i) + 1),
          Low |-> Num(RawClose(k, i) - 2), Close |-> Num(RawClose(k, i)),
          Volume |-> 10 + RawSlot(k, i)]
    ELSE [Open |-> NaN, High |-> NaN, Low |-> NaN, Close |-> NaN, Volume |-> 0]

\* What yf.Ticker(symbol).history(period) does: it raises, or returns a frame
\* indexed by "Date" with the price columns (possibly with no rows).
HistoryFrame(k, n) ==
    [raises |-> FALSE,
     name   |-> "Date",
     index  |-> [i \in 1..n |-> Timestamp(RawDay(k, i))],
     cols   |-> <<"Open", "High", "Low", "Close", "Volume">>,
     rows   |-> [i \in 1..n |-> RawRow(k, i)]]

HistoryRaises ==
    [raises |-> TRUE, name |-> "", index |-> <<>>, cols |-> <<>>, rows |-> <<>>]

HistoryResults ==
    {HistoryRaises} \cup {HistoryFrame(k, n) : k \in 0..MaxKind, n \in 0..MaxLen}

\* ------------------------------------------------------- fetch_stock_data

Pad2(n) == IF n < 10 THEN "0" \o ToString(n) ELSE ToString(n)

\* str() of a timezone-aware daily timestamp.
DateStr(t) ==
    ToString(t.y) \o "-" \o Pad2(t.m) \o "-" \o Pad2(t.d) \o " 00:00:00-05:00"

\* df.reset_index(inplace=True): the index becomes the first column, under
\* the index's name.
ResetIndex(r) ==
    LET keys == Range(r.cols) \cup {r.name}
    IN  [cols |-> <<r.name>> \o r.cols,
         rows |-> [i \in 1..Len(r.rows) |->
                      LET row == r.rows[i]
                      IN  [c \in keys |-> IF c = r.name THEN r.index[i] ELSE row[c]]]]

\* df["Date"] = df["Date"].astype(str)
DateAsStr(d) ==
    SetColumn(d, "Date", [i \in 1..Len(d.rows) |-> DateStr(d.rows[i]["Date"])])

\* The outcome of fetch_stock_data for the history() result r: the value
\* returned, whether an exception left the function, and the pipeline stages
\* it went through.
\* fetch_stock_data without its try/except.
FetchUnguarded(r) ==
    IF r.raises \/ IsEmpty([cols |-> r.cols, rows |-> r.rows])
       \/ r.name # "Date"
    THEN [ret |-> EmptyDataFrame, raised |-> TRUE, stages |-> <<"fetch">>]
    ELSE [ret |-> DateAsStr(ResetIndex(r)), raised |-> FALSE,
          stages |-> <<"fetch", "normalize">>]

\* fetch_stock_data with the rows that carry no close price dropped.
FetchDropsUnpriced(r) ==
    IF r.raises \/ IsEmpty([cols |-> r.cols, rows |-> r.rows])
       \/ r.name # "Date"
    THEN [ret |-> EmptyDataFrame, raised |-> FALSE, stages |-> <<"fetch">>]
    ELSE LET d == DateAsStr(ResetIndex(r))
         IN  [ret |-> [cols |-> d.cols,
                       rows |-> SelectSeq(d.rows, LAMBDA x : ~IsNaN(x["Close"]))],
              raised |-> FALSE, stages |-> <<"fetch", "normalize">>]

fetch_stock_data(r) ==
    IF r.raises
    THEN [ret |-> EmptyDataFrame, raised |-> FALSE, stages |-> <<"fetch">>]
    ELSE IF IsEmpty([cols |-> r.cols, rows |-> r.rows])
    THEN [ret |-> EmptyDataFrame, raised |-> FALSE, stages |-> <<"fetch">>]
    ELSE IF r.name # "Date"
    THEN [ret |-> EmptyDataFrame, raised |-> FALSE,
          stages |-> <<"fetch", "normalize">>]
    ELSE [ret |-> DateAsStr(ResetIndex(r)), raised |-> FALSE,
          stages |-> <<"fetch", "normalize">>]

\* ---------------------------------------------------------- rolling mean

\* Series.rolling(window=w).mean(): a sliding sum and a count of the
\* observations in the window; each step adds the entering value, removes
\* the one that leaves, and yields sum / count once count reaches w
\* (min_periods defaults to the window), NaN before.
RECURSIVE RollFrom(_, _, _, _, _, _)
RollFrom(xs, w, i, nobs, sum, out) ==
    IF i > Len(xs) THEN out
    ELSE LET inV   == xs[i]
             nobs1 == IF IsNaN(inV) THEN nobs ELSE nobs + 1
             sum1  == IF IsNaN(inV) THEN sum ELSE sum + inV[1]
             gone  == i > w /\ ~IsNaN(xs[i - w])
             nobs2 == IF gone THEN nobs1 - 1 ELSE nobs1
             sum2  == IF gone THEN sum1 - xs[i - w][1] ELSE sum1
             val   == IF nobs2 >= w /\ nobs2 > 0 THEN <<sum2, nobs2>> ELSE NaN
         IN  RollFrom(xs, w, i + 1, nobs2, sum2, Append(out, val))

\* A rolling mean that never removes the value leaving the window.
RollingMeanNoRemoval(xs, w) ==
    LET total[i \in 0..Len(xs)] ==
            IF i = 0 THEN 0
            ELSE total[i - 1] + (IF IsNaN(xs[i]) THEN 0 ELSE xs[i][1])
    IN  [i \in 1..Len(xs) |-> IF i >= w THEN <<total[i], i>> ELSE NaN]

RollingMean(xs, w) == RollFrom(xs, w, 1, 0, 0, <<>>)

\* ---------------------------------------------------------------- display

Component(kind, title, data) == [kind |-> kind, title |-> title, data |-> data]
Text(s) == Component("text", s, EmptyDataFrame)

\* ----------------------------------------------------------------- state

\* The module namespace of a fresh run: no name bound, nothing displayed.
Init ==
    /\ pc = "step1"
    /\ globals = {}
    /\ selected_stock = ""
    /\ selected_time = ""
    /\ df = EmptyDataFrame
    /\ threshold = 0
    /\ filtered_df = EmptyDataFrame
    /\ raw = HistoryRaises
    /\ shown = <<>>
    /\ failed = {}
    /\ stages = <<>>
    /\ exc = ""
    /\ interacted = FALSE

\* Step 1: PreswaldService.initialize().  Whether it succeeds or raises, the
\* script only writes a log line and goes on; the log is not part of the
\* state.
Step1_Connect ==
    /\ pc = "step1"
    /\ pc' = "step3"
    /\ UNCHANGED <<globals, selected_stock, selected_time, df, threshold,
                   filtered_df, raw, shown, failed, stages, exc, interacted>>

\* Step 3: title and the two selection widgets, in one try block.  A call
\* that raises ends the block: the names assigned after it stay unbound.
Step3_UI ==
    /\ pc = "step3"
    /\ \/ /\ failed' = failed \cup {"step3"}
          /\ UNCHANGED <<shown, globals, selected_stock, selected_time>>
       \/ /\ shown' = Append(shown, Text(TitleText))
          /\ failed' = failed \cup {"step3"}
          /\ globals' = globals \cup {"stocks"}
          /\ UNCHANGED <<selected_stock, selected_time>>
       \/ \E s \in Range(stocks) :
             /\ shown' = Append(shown, Text(TitleText))
             /\ selected_stock' = s
             /\ globals' = globals \cup {"stocks", "selected_stock", "time_options"}
             /\ failed' = failed \cup {"step3"}
             /\ UNCHANGED selected_time
       \/ \E s \in Range(stocks), t \in Range(time_options) :
             /\ shown' = Append(shown, Text(TitleText))
             /\ selected_stock' = s
             /\ selected_time' = t
             /\ globals' = globals \cup {"stocks", "selected_stock",
                                         "time_options", "selected_time"}
             /\ UNCHANGED failed
    /\ pc' = "step4"
    /\ UNCHANGED <<df, threshold, filtered_df, raw, stages, exc, interacted>>

\* The branch of line 61 with its condition inverted.
TakesElseInverted(d) == ~IsEmpty(d)

\* if not df.empty: ... else: ...
TakesElse(d) == IsEmpty(d)

\* A step whose exception is not caught: the script ends there.
Propagates(next) == "crashed"

\* The program counter after a step whose try block caught an exception.
AfterCaught(next) == next

\* Step 4: df = fetch_stock_data(selected_stock, selected_time), then the
\* branch on df.empty and, on the non-empty side, the heading and the data
\* table.  Nothing here is inside a try block.
Step4_Load ==
    /\ pc = "step4"
    /\ IF ~({"selected_stock", "selected_time"} \subseteq globals)
       THEN /\ pc' = "crashed"
            /\ exc' = "NameError"
            /\ UNCHANGED <<globals, df, raw, shown, stages>>
       ELSE \E r \in HistoryResults :
               LET res == fetch_stock_data(r)
                   heading == Text("### Stock Data for " \o selected_stock
                                   \o " (" \o selected_time \o ")")
                   tbl == Component("table", "Stock Market Data",
                              Project(res.ret, <<"Date", "Open", "High",
                                                 "Low", "Close", "Volume">>))
               IN  /\ raw' = r
                   /\ stages' = stages \o res.stages
                   /\ IF res.raised
                      THEN /\ pc' = "crashed"
                           /\ exc' = "fetch_stock_data"
                           /\ UNCHANGED <<globals, df, shown>>
                      ELSE /\ df' = res.ret
                           /\ globals' = globals \cup {"df"}
                           /\ IF TakesElse(res.ret)
                              THEN /\ pc' = "else"
                                   /\ UNCHANGED <<shown, exc>>
                              ELSE \/ /\ pc' = "crashed"
                                      /\ exc' = "text"
                                      /\ UNCHANGED shown
                                   \/ /\ pc' = "crashed"
                                      /\ exc' = "table"
                                      /\ shown' = Append(shown, heading)
                                   \/ /\ pc' = "step5"
                                      /\ shown' = shown \o <<heading, tbl>>
                                      /\ UNCHANGED exc
    /\ UNCHANGED <<selected_stock, selected_time, threshold, filtered_df,
                   failed, interacted>>

\* Step 5: heading and candlestick chart, in a try block; the failure
\* modelled is one building or showing the chart, after the heading.
Step5_Candlestick ==
    /\ pc = "step5"
    /\ LET heading == Text("## Stock Price Candlestick Chart")
           fig == Component("candlestick", selected_stock \o " Candlestick Chart",
                      Project(df, <<"Date", "Open", "High", "Low", "Close">>))
       IN  \/ /\ failed' = failed \cup {"step5"}
              /\ pc' = AfterCaught("step6")
              /\ shown' = Append(shown, heading)
           \/ /\ shown' = shown \o <<heading, fig>>
              /\ pc' = "step6"
              /\ UNCHANGED failed
    /\ UNCHANGED <<globals, selected_stock, selected_time, df, threshold,
                   filtered_df, raw, stages, exc, interacted>>

\* df["MA7"] = df["Close"].rolling(window=7).mean()
WithMA7(d) == SetColumn(d, "MA7", RollingMean(Column(d, "Close"), MA7Window))

\* The 30-day average taken over the MA7 column instead of Close.
WithMA30OverMA7(d) ==
    SetColumn(d, "MA30", RollingMean(Column(d, "MA7"), MA30Window))

\* df["MA30"] = df["Close"].rolling(window=30).mean()
WithMA30(d) == SetColumn(d, "MA30", RollingMean(Column(d, "Close"), MA30Window))

\* Step 6: the two moving-average columns, heading and line chart, in a try
\* block.  The columns are assigned on df itself.  The failures modelled:
\* at line 82 (nothing assigned), at line 83 (MA7 assigned), and building or
\* showing the chart (both assigned, heading shown).
Step6_MovingAverages ==
    /\ pc = "step6"
    /\ LET heading == Text("## Moving Averages (7-day & 30-day)")
           d7 == WithMA7(df)
           d30 == WithMA30(d7)
           fig == Component("line", "Stock Price with Moving Averages",
                      Project(d30, <<"Date", "Close", "MA7", "MA30">>))
       IN  \/ /\ failed' = failed \cup {"step6"}
              /\ pc' = AfterCaught("step7")
              /\ UNCHANGED <<df, shown, stages>>
           \/ /\ df' = d7
              /\ failed' = failed \cup {"step6"}
              /\ pc' = AfterCaught("step7")
              /\ UNCHANGED <<shown, stages>>
           \/ /\ df' = d30
              /\ stages' = Append(stages, "derive")
              /\ failed' = failed \cup {"step6"}
              /\ pc' = AfterCaught("step7")
              /\ shown' = Append(shown, heading)
           \/ /\ df' = d30
              /\ stages' = Append(stages, "derive")
              /\ shown' = shown \o <<heading, fig>>
              /\ pc' = "step7"
              /\ UNCHANGED failed
    /\ UNCHANGED <<globals, selected_stock, selected_time, threshold,
                   filtered_df, raw, exc, interacted>>

\* The filter with >= in place of >.
FilterAtLeast(d, t) ==
    [cols |-> d.cols,
     rows |-> SelectSeq(d.rows, LAMBDA r : ~IsNaN(r["Close"])
                                           /\ r["Close"][1] >= t * r["Close"][2])]

\* df[df["Close"] > threshold]
FilterAbove(d, t) ==
    [cols |-> d.cols,
     rows |-> SelectSeq(d.rows, LAMBDA r : GreaterThan(r["Close"], t))]

\* Step 7: heading, threshold slider, filtered table, in a try block; then
\* the closing log line of the script.  The failure modelled is one at the
\* heading: the slider is not read and nothing is filtered.
Step7_Filter ==
    /\ pc = "step7"
    /\ LET heading == Text("## Filter Stocks by Closing Price")
       IN  \/ /\ failed' = failed \cup {"step7"}
              /\ UNCHANGED <<shown, globals, threshold, filtered_df, stages>>
           \/ \E t \in SliderValues :
                 LET f == FilterAbove(df, t)
                     tbl == Component("table", "Filtered Stock Data",
                                Project(f, <<"Date", "Close">>))
                 IN  /\ threshold' = t
                     /\ filtered_df' = f
                     /\ globals' = globals \cup {"threshold", "filtered_df"}
                     /\ stages' = Append(stages, "filter")
                     /\ shown' = shown \o <<heading, tbl>>
                     /\ UNCHANGED failed
    /\ pc' = AfterCaught("done")
    /\ UNCHANGED <<selected_stock, selected_time, df, raw, exc, interacted>>

\* The else branch: the no-data notice, outside any try block; then the
\* closing log line of the script.
Else_NoData ==
    /\ pc = "else"
    /\ \/ /\ pc' = "crashed"
          /\ exc' = "text"
          /\ UNCHANGED shown
       \/ /\ pc' = "done"
          /\ shown' = Append(shown, Text(NoDataText))
          /\ UNCHANGED exc
    /\ UNCHANGED <<globals, selected_stock, selected_time, df, threshold,
                   filtered_df, raw, failed, stages, interacted>>

\* A run that starts from what the previous run left behind.
StaleRun ==
    [globals |-> globals, shown |-> shown, failed |-> failed, stages |-> stages]

\* What a new run of the script starts from: a fresh module namespace.
FreshRun ==
    [globals |-> {}, shown |-> <<>>, failed |-> {}, stages |-> <<>>]

\* A user interaction: the host runs the script again from its first line.
Rerun ==
    /\ pc \in {"done", "crashed"}
    /\ pc' = "step1"
    /\ globals' = FreshRun.globals
    /\ shown' = FreshRun.shown
    /\ failed' = FreshRun.failed
    /\ stages' = FreshRun.stages
    /\ selected_stock' = ""
    /\ selected_time' = ""
    /\ df' = EmptyDataFrame
    /\ threshold' = 0
    /\ filtered_df' = EmptyDataFrame
    /\ raw' = HistoryRaises
    /\ exc' = ""
    /\ UNCHANGED interacted

\* The same, remembering that this run is not the first.
RerunCounted ==
    /\ pc \in {"done", "crashed"}
    /\ pc' = "step1"
    /\ globals' = FreshRun.globals
    /\ shown' = FreshRun.shown
    /\ failed' = FreshRun.failed
    /\ stages' = FreshRun.stages
    /\ selected_stock' = ""
    /\ selected_time' = ""
    /\ df' = EmptyDataFrame
    /\ threshold' = 0
    /\ filtered_df' = EmptyDataFrame
    /\ raw' = HistoryRaises
    /\ exc' = ""
    /\ interacted' = TRUE

Next ==
    \/ Step1_Connect
    \/ Step3_UI
    \/ Step4_Load
    \/ Step5_Candlestick
    \/ Step6_MovingAverages
    \/ Step7_Filter
    \/ Else_NoData
    \/ Rerun

Spec == Init /\ [][Next]_vars

NextCounted ==
    \/ Step1_Connect
    \/ Step3_UI
    \/ Step4_Load
    \/ Step5_Candlestick
    \/ Step6_MovingAverages
    \/ Step7_Filter
    \/ Else_NoData
    \/ RerunCounted

\* The same runs, with the interacted flag telling a rerun from a first run.
RerunSpec == Init /\ [][NextCounted]_vars

\* ---------------------------------------------------------------- claims

Fetched == "df" \in globals
Normalized == fetch_stock_data(raw).ret
SixColumns == <<"Date", "Open", "High", "Low", "Close", "Volume">>
NoticeShown == \E i \in 1..Len(shown) : shown[i] = Text(NoDataText)
DataShown ==
    \E i \in 1..Len(shown) : shown[i].kind \in {"table", "candlestick", "line"}

\* C1: fetch_stock_data always returns a value and never raises; when the
\* market-data call raises or returns zero rows the value is the empty table,
\* the same value in both cases.
C1_FetchAbsorbsFailure ==
    /\ exc # "fetch_stock_data"
    /\ pc \in {"step5", "step6", "step7", "else", "done"} => Fetched
    /\ (Fetched /\ (raw.raises \/ Len(raw.rows) = 0)) =>
          /\ df = EmptyDataFrame
          /\ pc \in {"else", "done", "crashed"}

C1_Witness ==
    /\ Fetched /\ ~raw.raises /\ Len(raw.rows) = 0
    /\ df = EmptyDataFrame /\ pc = "else"

RECURSIVE SumCloses(_, _, _)
SumCloses(d, lo, hi) ==
    IF lo > hi THEN 0 ELSE d.rows[hi]["Close"][1] + SumCloses(d, lo, hi - 1)

AllPriced(d, lo, hi) == \A j \in lo..hi : ~IsNaN(d.rows[j]["Close"])

MovingAverageIs(d, c, w) ==
    c \in Range(d.cols) =>
       /\ Len(Column(d, c)) = Len(raw.rows)
       /\ \A i \in 1..Len(d.rows) :
             d.rows[i][c] = IF i >= w /\ AllPriced(d, i - w + 1, i)
                            THEN <<SumCloses(d, i - w + 1, i), w>>
                            ELSE NaN

\* C2: each moving-average column has one entry per bar of the series; the
\* entry of the i-th bar (counted from 1) is absent when i < w, and when
\* i >= w it is the sum of the w closes ending at bar i divided by w (absent
\* when one of those bars has no close), for w = 7 and w = 30.
C2_MovingAverages ==
    /\ MovingAverageIs(df, "MA7", MA7Window)
    /\ MovingAverageIs(df, "MA30", MA30Window)

C2_Witness ==
    /\ {"MA7", "MA30"} \subseteq Range(df.cols)
    /\ Len(df.rows) > MA30Window
    /\ IsNaN(df.rows[MA30Window - 1]["MA30"])
    /\ ~IsNaN(df.rows[MA30Window]["MA30"])
    /\ ~IsNaN(df.rows[MA30Window + 1]["MA30"])
    /\ df.rows[MA30Window]["MA30"] # df.rows[MA30Window + 1]["MA30"]
    /\ IsNaN(df.rows[MA7Window - 1]["MA7"])
    /\ df.rows[MA7Window]["MA7"] # df.rows[MA7Window + 1]["MA7"]

Above(d, t) == {i \in 1..Len(d.rows) : GreaterThan(d.rows[i]["Close"], t)}

\* C3: the filtered table holds exactly the bars of the series whose close is
\* strictly above the threshold, each once, in their original order: the
\* k-th bar above the threshold is the k-th row of the filtered table, and
\* the table has no other row.  The table shown is its [Date, Close] part.
C3_FilterIsMaximalSubsequence ==
    "filtered_df" \in globals =>
       LET S == Above(df, threshold)
       IN  /\ Len(filtered_df.rows) = Cardinality(S)
           /\ \A i \in S :
                 filtered_df.rows[Cardinality({x \in S : x <= i})] = df.rows[i]
           /\ filtered_df.cols = df.cols
           /\ \A k \in 1..Len(shown) :
                 shown[k].title = "Filtered Stock Data" =>
                    /\ Len(shown[k].data.rows) = Cardinality(S)
                    /\ \A i \in S :
                          LET r == shown[k].data.rows[Cardinality({x \in S : x <= i})]
                          IN  /\ r["Date"] = df.rows[i]["Date"]
                              /\ r["Close"] = df.rows[i]["Close"]

C3_Witness ==
    /\ "filtered_df" \in globals
    /\ \E i \in 1..Len(df.rows) : df.rows[i]["Close"] = Num(threshold)
    /\ \E i \in 1..Len(df.rows) : IsNaN(df.rows[i]["Close"])
    /\ Len(filtered_df.rows) > 1
    /\ Len(filtered_df.rows) < Len(df.rows)
    /\ \E k \in 1..Len(shown) : shown[k].title = "Filtered Stock Data"

\* C4: once the series is fetched, an empty series never has a data table or
\* a chart shown and a run that reaches its end has shown the no-data
\* notice; a non-empty series never has the notice shown; the notice and the
\* tables or charts are never shown together.
C4_NoticeOrData ==
    /\ (Fetched /\ IsEmpty(df)) => (~DataShown /\ (pc = "done" => NoticeShown))
    /\ (Fetched /\ ~IsEmpty(df)) => ~NoticeShown
    /\ ~Fetched => (~NoticeShown /\ ~DataShown)
    /\ ~(NoticeShown /\ DataShown)

C4_Witness == Fetched /\ IsEmpty(df) /\ pc = "done" /\ NoticeShown /\ raw.raises

AfterDerivation == pc \in {"step7", "done"} /\ Fetched /\ ~IsEmpty(df)

\* C5 as stated: after the derivation step the table the later steps read
\* has the same bars, the same fields and the same values as before it.
C5_SeriesUntouched == AfterDerivation => df = Normalized

SameBars(d, n) ==
    /\ Len(d.rows) = Len(n.rows)
    /\ \A i \in 1..Len(n.rows) :
          LET row == n.rows[i] IN \A c \in Range(n.cols) : d.rows[i][c] = row[c]

\* C5 as amended: the derivation step adds the columns MA7 and MA30 to the
\* table itself and changes nothing else: the bars, their order and the six
\* price fields keep their values, and each average is the rolling mean of
\* the close column alone, whether or not the other was computed.
C5_DerivationOnlyAddsColumns ==
    AfterDerivation =>
       LET n == Normalized
           closes == Column(df, "Close")
       IN  /\ n.cols = SixColumns
           /\ SameBars(df, n)
           /\ SubSeq(df.cols, 1, Len(SixColumns)) = n.cols
           /\ Range(df.cols) \ Range(n.cols) \subseteq {"MA7", "MA30"}
           /\ "step6" \notin failed => {"MA7", "MA30"} \subseteq Range(df.cols)
           /\ "MA7" \in Range(df.cols) =>
                 Column(df, "MA7") = RollingMean(closes, MA7Window)
           /\ "MA30" \in Range(df.cols) =>
                 Column(df, "MA30") = RollingMean(closes, MA30Window)

C5_Witness ==
    /\ pc = "done"
    /\ {"MA7", "MA30"} \subseteq Range(df.cols)
    /\ Len(df.rows) >= MA30Window
    /\ ~IsNaN(df.rows[MA30Window]["MA30"])
    /\ "filtered_df" \in globals

WellFormedRows == {i \in 1..Len(raw.rows) : ~IsNaN(raw.rows[i]["Close"])}

Pipeline == <<"fetch", "normalize", "derive", "filter">>
StagePosition(x) == CHOOSE k \in 1..Len(Pipeline) : Pipeline[k] = x

\* What each table or chart shows, as a function of this run's fetch result
\* and threshold alone.
ExpectedData(title, n) ==
    CASE title = "Stock Market Data" -> Project(n, SixColumns)
      [] title = "Stock Price with Moving Averages" ->
            LET closes == Column(n, "Close")
                ma7 == RollingMean(closes, MA7Window)
                ma30 == RollingMean(closes, MA30Window)
            IN  [cols |-> <<"Date", "Close", "MA7", "MA30">>,
                 rows |-> [i \in 1..Len(n.rows) |->
                              [Date |-> n.rows[i]["Date"], Close |-> closes[i],
                               MA7 |-> ma7[i], MA30 |-> ma30[i]]]]
      [] title = "Filtered Stock Data" ->
            Project(FilterAbove(n, threshold), <<"Date", "Close">>)
      [] OTHER -> Project(n, <<"Date", "Open", "High", "Low", "Close">>)

ExpectedHeadings ==
    {TitleText, NoDataText,
     "### Stock Data for " \o selected_stock \o " (" \o selected_time \o ")",
     "## Stock Price Candlestick Chart", "## Moving Averages (7-day & 30-day)",
     "## Filter Stocks by Closing Price"}

C9_StepsFailApart ==
    /\ "step5" \in failed => pc \in {"step6", "step7", "done"}
    /\ "step6" \in failed => pc \in {"step7", "done"}
    /\ (pc \in {"step7", "done"} /\ "step6" \notin failed /\ Fetched /\ ~IsEmpty(df)) =>
          \E k \in 1..Len(shown) : shown[k].kind = "line"
    /\ (pc = "done" /\ Fetched /\ ~IsEmpty(df) /\ "step7" \notin failed) =>
          /\ "filter" \in Range(stages)
          /\ shown[Len(shown)] =
                Component("table", "Filtered Stock Data",
                          Project(FilterAbove(Normalized, threshold),
                                  <<"Date", "Close">>))

C9_Witness ==
    /\ pc = "done"
    /\ {"step5", "step6"} \subseteq failed
    /\ "step7" \notin failed
    /\ "MA7" \notin Range(df.cols)
    /\ Len(filtered_df.rows) > 0
    /\ shown[Len(shown)].title = "Filtered Stock Data"

\* C10: no exception escapes a run, whichever step fails, and the fetch is
\* never reached with the symbol or the period unbound.
C10_NoExceptionEscapes == pc # "crashed" /\ exc = ""
====
